---- MODULE Spec2Model ----
(***************************************************************************)
(* Model of the entity/component core: ComponentSystem (the per-entity     *)
(* component registry with its priority-ordered cache and its events) and  *)
(* the binding context it brackets component construction with.            *)
(*                                                                         *)
(* The program is synchronous and single-threaded, but user code runs      *)
(* inside it: component constructors, destroy(), event listeners and       *)
(* forEach callbacks may call back into any ComponentSystem.  The model    *)
(* is therefore a call stack: every frame is a ComponentSystem method      *)
(* suspended inside one of the callbacks it invokes, and a method is       *)
(* called either by the host (empty stack) or by the callback on top.      *)
(*                                                                         *)
(* The specifications share the actions.  Spec lets callbacks call back    *)
(* (re-entrancy) on one entity with two component classes; SpecBind does   *)
(* the same on two entities, which share the binding context, and          *)
(* SpecNested follows the adds one level deeper; SpecHost has passive      *)
(* callbacks, so that calls are sequential and never overlap, on one       *)
(* entity with three component classes, and SpecLookup adds get, find and  *)
(* has to it.                                                              *)
(*                                                                         *)
(* QueryBuilder is modelled over the same registries: the conditions it    *)
(* accumulates, the entity set it holds by reference, and its terminal     *)
(* calls, computed as the loops of the code compute them.  SpecQuery has   *)
(* chains of with and without conditions, with and without predicate,      *)
(* over entities that get components; SpecLive has short chains over       *)
(* entities whose components are added and removed.                        *)
(***************************************************************************)
EXTENDS Integers, Sequences, FiniteSets, TLC

\* ------------------------------------------------------------- bounds
MaxInst == 2              \* instances ever constructed, callbacks calling back
MaxHostInst == 3          \* instances ever constructed, callbacks passive
MaxDepth == 2             \* calls in progress: the host's and those nested in it
MaxDestroyed == 2         \* destroy() calls counted per instance
NumListeners == 1         \* listeners registered on each event of each system
MaxConds == 2             \* conditions accumulated by a QueryBuilder
MaxNested == 3            \* calls in progress where listeners of a nested add call add
MaxNestedInst == 3        \* instances ever constructed there
MaxLiveInst == 2          \* instances ever constructed where queried components are removed

Entities == {1, 2}        \* entities, each owning one ComponentSystem
OneEntity == {1}          \* the entities in use where one is enough
Types == {"A", "B", "C"}  \* component classes (the keys of componentsMap)
NestedTypes == {"A", "B"} \* the classes used when callbacks call back
QueryTypes == {"A", "B"}  \* the classes used where entities are queried

\* the class arguments of with and of without: one class, or several
WithTuples == { <<"A">>, <<"A", "B">> }
WithoutTuples == { <<"B">>, <<"A", "B">> }

\* the class arguments where components are also removed
LiveWith == { <<"A">> }
LiveWithout == { <<"B">> }

\* the predicate passed to with: none, or one that accepts the instances
\* whose entity is entity 1
Checks == {"none", "ofFirst"}

\* the priority each class gives its instances: distinct ones, and ties
PriorityMaps ==
    { [A |-> 3, B |-> 1, C |-> 2],
      [A |-> 2, B |-> 1, C |-> 2],
      [A |-> 1, B |-> 1, C |-> 1] }

NoEntity == 0             \* the cleared binding slot
Undefined == 0            \* Map.get of a missing key; the payload of 'update'

VARIABLES
    componentsMap,        \* [entity -> sequence of [key, val]], in insertion order
    componentsList,       \* [entity -> sequence of instance ids], the cache
    componentsListDirty,  \* [entity -> BOOLEAN]
    currentEntity,        \* the binding context's single slot
    instances,            \* instance id -> [type, priority, entity]
    stack,                \* the methods suspended inside a callback, outermost first
    exc,                  \* the exception just thrown to user code, or "none"
    obs,                  \* instance id -> what has been observed of the instance
    last,                 \* what the call that just ended did or returned, where followed
    priorityOf,           \* [class -> the priority its constructor sets]
    reentrant,            \* whether callbacks call back into a ComponentSystem
    inUse,                \* the entities whose ComponentSystem is used
    entities,             \* the Set<Entity> a QueryBuilder holds, in insertion order
    conditions            \* QueryBuilder.conditions

vars == <<componentsMap, componentsList, componentsListDirty, currentEntity,
          instances, stack, exc, obs, last, priorityOf, reentrant, inUse,
          entities, conditions>>

registry == <<componentsMap, componentsList, componentsListDirty>>

env == <<priorityOf, reentrant, inUse>>

builder == <<entities, conditions>>

\* ------------------------------------------------ the Map of one system
MapHas(m, t) == \E i \in 1..Len(m) : m[i].key = t

MapGet(m, t) ==
    IF MapHas(m, t)
    THEN m[CHOOSE i \in 1..Len(m) : m[i].key = t].val
    ELSE Undefined

\* Map.set keeps the position of a key that is already present
MapSet(m, t, c) ==
    IF MapHas(m, t)
    THEN [i \in 1..Len(m) |-> IF m[i].key = t THEN [key |-> t, val |-> c] ELSE m[i]]
    ELSE Append(m, [key |-> t, val |-> c])

MapDelete(m, t) == SelectSeq(m, LAMBDA x : x.key # t)

MapValues(m) == [i \in 1..Len(m) |-> m[i].val]

\* ---------------------------------------------------- binding context
setCurrentEntity(e) == currentEntity' = e

resetCurrentEntity == currentEntity' = NoEntity

\* ------------------------------------------------------ lookups
has(e, t) == MapHas(componentsMap[e], t)

find(e, t) == MapGet(componentsMap[e], t)

\* ------------------------------------------------------ rebuildList
\* the comparator of the sort: a.priority - b.priority
Compare(a, b) == instances[a].priority - instances[b].priority

\* a sort that puts an element in front of its equals
InsertSorted_BeforeEquals(s, c) ==
    LET n == Cardinality({i \in 1..Len(s) : Compare(s[i], c) < 0})
    IN  SubSeq(s, 1, n) \o <<c>> \o SubSeq(s, n + 1, Len(s))

\* Array.prototype.sort is stable: an element goes behind its equals
InsertSorted(s, c) ==
    LET n == Cardinality({i \in 1..Len(s) : Compare(s[i], c) <= 0})
    IN  SubSeq(s, 1, n) \o <<c>> \o SubSeq(s, n + 1, Len(s))

RECURSIVE SortValues(_)
SortValues(s) ==
    IF s = <<>> THEN <<>>
    ELSE InsertSorted(SortValues(SubSeq(s, 1, Len(s) - 1)), s[Len(s)])

\* this.componentsList after rebuildList()
RebuiltList(e) ==
    IF componentsListDirty[e]
    THEN SortValues(MapValues(componentsMap[e]))
    ELSE componentsList[e]

rebuildList(e) ==
    /\ componentsList' = [componentsList EXCEPT ![e] = RebuiltList(e)]
    /\ componentsListDirty' = [componentsListDirty EXCEPT ![e] = FALSE]

\* ------------------------------------------------------ the call stack
Top == stack[Len(stack)]

Pop == SubSeq(stack, 1, Len(stack) - 1)

\* user code is running: the host, or the callback of the top frame
Running == exc = "none"

\* ... and may call a method of a ComponentSystem: the host does, and a
\* callback does where callbacks call back, up to the depth followed
CanCall ==
    /\ Running
    /\ IF reentrant THEN Len(stack) < MaxDepth ELSE stack = <<>>

Callable == IF reentrant THEN NestedTypes ELSE Types

Called == inUse

Constructing == Cardinality({i \in 1..Len(stack) : stack[i].pc = "ctor"})

CanConstruct ==
    Len(instances) + Constructing < (IF reentrant THEN MaxInst ELSE MaxHostInst)

Frame(op, e, t, pc, c, li) ==
    [op |-> op, e |-> e, t |-> t, pc |-> pc, c |-> c, li |-> li, emitted |-> <<>>]

\* emit(name, payload), as the call that emits keeps it
Emitted(log, name, payload) == Append(log, [name |-> name, payload |-> payload])

\* what is observed of an instance: the destroy() calls on it, and the events
\* emitted for it.  The events, and the calls that end without doing
\* anything, are followed where calls are sequential
Observed(new, old) == IF reentrant THEN old ELSE new

NewObs == [destroyed |-> 0, emitted |-> <<>>]

Nothing == [op |-> "none", t |-> "-"]

InitRegistry ==
    /\ componentsMap = [e \in Entities |-> <<>>]
    /\ componentsList = [e \in Entities |-> <<>>]
    /\ componentsListDirty = [e \in Entities |-> TRUE]
    /\ currentEntity = NoEntity
    /\ instances = <<>>
    /\ stack = <<>>
    /\ exc = "none"
    /\ obs = <<>>
    /\ last = Nothing
    /\ entities = <<>>
    /\ conditions = <<>>

Init ==
    /\ InitRegistry
    /\ reentrant = TRUE
    /\ inUse = OneEntity
    /\ priorityOf = [A |-> 2, B |-> 1, C |-> 2]

InitBind ==
    /\ InitRegistry
    /\ reentrant = TRUE
    /\ inUse = Entities
    /\ priorityOf = [A |-> 2, B |-> 1, C |-> 2]

InitHost ==
    /\ InitRegistry
    /\ reentrant = FALSE
    /\ inUse = OneEntity
    /\ priorityOf \in PriorityMaps

\* ------------------------------------------------------------- add
\* add without its duplicate check
add_Unchecked(e, t) ==
    /\ CanCall
    /\ CanConstruct
    /\ setCurrentEntity(e)
    /\ stack' = Append(stack, Frame("add", e, t, "ctor", Undefined, 0))
    /\ last' = Nothing
    /\ UNCHANGED <<registry, instances, exc, obs, env, builder>>

\* lines 128-133: the duplicate check, the binding, the constructor call
add(e, t) ==
    /\ CanCall
    /\ IF has(e, t)
       THEN /\ exc' = "duplicate"
            /\ UNCHANGED <<registry, currentEntity, instances, stack, obs>>
       ELSE /\ CanConstruct
            /\ setCurrentEntity(e)
            /\ stack' = Append(stack, Frame("add", e, t, "ctor", Undefined, 0))
            /\ UNCHANGED <<registry, instances, exc, obs>>
    /\ last' = Nothing
    /\ UNCHANGED <<env, builder>>

\* add marking the cache dirty before it constructs
constructorThrows_Dirty ==
    /\ stack # <<>> /\ Running
    /\ Top.pc = "ctor"
    /\ exc' = "constructor"
    /\ stack' = Pop
    /\ componentsListDirty' = [componentsListDirty EXCEPT ![Top.e] = TRUE]
    /\ last' = Nothing
    /\ UNCHANGED <<componentsMap, componentsList, currentEntity, instances, obs, env, builder>>

\* line 133: the constructor throws; nothing in add catches it
constructorThrows ==
    /\ stack # <<>> /\ Running
    /\ Top.pc = "ctor"
    /\ exc' = "constructor"
    /\ stack' = Pop
    /\ last' = Nothing
    /\ UNCHANGED <<registry, currentEntity, instances, obs, env, builder>>

\* lines 133-141: the constructor returns the instance (it reads the binding
\* slot before it does), then unbind, back-reference, map.set, dirty, and
\* emit('add', instance), whose first listener starts
addConstructed ==
    /\ stack # <<>> /\ Running
    /\ Top.pc = "ctor"
    /\ LET e == Top.e
           t == Top.t
           c == Len(instances) + 1
       IN  /\ resetCurrentEntity
           /\ instances' = Append(instances,
                  [type |-> t, priority |-> priorityOf[t], entity |-> e])
           /\ componentsMap' =
                  [componentsMap EXCEPT ![e] = MapSet(componentsMap[e], t, c)]
           /\ componentsListDirty' = [componentsListDirty EXCEPT ![e] = TRUE]
           /\ stack' = [stack EXCEPT ![Len(stack)] =
                            [Top EXCEPT !.pc = "emitAdd", !.c = c, !.li = 1,
                                        !.emitted = Emitted(@, "add", c)]]
           /\ obs' = Append(obs, [NewObs EXCEPT !.emitted =
                                     Observed(Emitted(@, "add", c), @)])
    /\ last' = Nothing
    /\ UNCHANGED <<componentsList, exc, env, builder>>

\* ------------------------------------------------------------- remove
\* remove marking the cache dirty before its early return
remove_DirtyFirst(e, t) ==
    /\ CanCall
    /\ componentsListDirty' = [componentsListDirty EXCEPT ![e] = TRUE]
    /\ IF find(e, t) = Undefined
       THEN /\ last' = Observed([op |-> "remove", t |-> t], Nothing)
            /\ UNCHANGED <<stack, obs>>
       ELSE /\ obs' = [obs EXCEPT ![find(e, t)].destroyed =
                                   IF @ < MaxDestroyed THEN @ + 1 ELSE @]
            /\ stack' = Append(stack,
                               Frame("remove", e, t, "destroy", find(e, t), 0))
            /\ last' = Nothing
    /\ UNCHANGED <<componentsMap, componentsList, currentEntity, instances, exc, env, builder>>

\* lines 155-157: the lookup, the early return, destroy() on the instance
remove(e, t) ==
    /\ CanCall
    /\ IF find(e, t) = Undefined
       THEN /\ last' = Observed([op |-> "remove", t |-> t], Nothing)
            /\ UNCHANGED <<stack, obs>>
       ELSE /\ obs' = [obs EXCEPT ![find(e, t)].destroyed =
                                   IF @ < MaxDestroyed THEN @ + 1 ELSE @]
            /\ stack' = Append(stack,
                               Frame("remove", e, t, "destroy", find(e, t), 0))
            /\ last' = Nothing
    /\ UNCHANGED <<registry, currentEntity, instances, exc, env, builder>>

\* remove emitting 'remove' before it deletes the map entry
removeDestroyed_EmitFirst ==
    /\ stack # <<>> /\ Running
    /\ Top.pc = "destroy"
    /\ stack' = [stack EXCEPT ![Len(stack)] =
                     [Top EXCEPT !.pc = "emitRemove", !.li = 1,
                                 !.emitted = Emitted(@, "remove", Top.c)]]
    /\ obs' = [obs EXCEPT ![Top.c].emitted =
                               Observed(Emitted(@, "remove", Top.c), @)]
    /\ last' = Nothing
    /\ UNCHANGED <<registry, currentEntity, instances, exc, env, builder>>

\* lines 157-161: destroy() returns, then map.delete, dirty, and
\* emit('remove', instance), whose first listener starts
removeDestroyed ==
    /\ stack # <<>> /\ Running
    /\ Top.pc = "destroy"
    /\ componentsMap' =
           [componentsMap EXCEPT ![Top.e] = MapDelete(componentsMap[Top.e], Top.t)]
    /\ componentsListDirty' = [componentsListDirty EXCEPT ![Top.e] = TRUE]
    /\ stack' = [stack EXCEPT ![Len(stack)] =
                     [Top EXCEPT !.pc = "emitRemove", !.li = 1,
                                 !.emitted = Emitted(@, "remove", Top.c)]]
    /\ obs' = [obs EXCEPT ![Top.c].emitted =
                               Observed(Emitted(@, "remove", Top.c), @)]
    /\ last' = Nothing
    /\ UNCHANGED <<componentsList, currentEntity, instances, exc, env, builder>>

\* ------------------------------------------------------------- emit
\* add and remove returning after their specific event, without emit('update')
listenerReturns_NoUpdate ==
    /\ stack # <<>> /\ Running
    /\ Top.pc \in {"emitAdd", "emitRemove", "emitUpdate"}
    /\ IF Top.li < NumListeners
       THEN stack' = [stack EXCEPT ![Len(stack)] = [Top EXCEPT !.li = @ + 1]]
       ELSE stack' = Pop
    /\ last' = Nothing
    /\ UNCHANGED <<registry, currentEntity, instances, exc, obs, env, builder>>

\* lines 141-143 and 161-163: a listener returns; the emitter calls the next
\* listener of the event; emit('update') follows the specific event; after its
\* listeners the method returns
listenerReturns ==
    /\ stack # <<>> /\ Running
    /\ Top.pc \in {"emitAdd", "emitRemove", "emitUpdate"}
    /\ IF Top.li < NumListeners
       THEN /\ stack' = [stack EXCEPT ![Len(stack)] = [Top EXCEPT !.li = @ + 1]]
            /\ UNCHANGED obs
       ELSE IF Top.pc # "emitUpdate"
       THEN /\ stack' = [stack EXCEPT ![Len(stack)] =
                             [Top EXCEPT !.pc = "emitUpdate", !.li = 1,
                                         !.emitted = Emitted(@, "update", Undefined)]]
            /\ obs' = [obs EXCEPT ![Top.c].emitted =
                                       Observed(Emitted(@, "update", Undefined), @)]
       ELSE /\ stack' = Pop
            /\ UNCHANGED obs
    /\ last' = Nothing
    /\ UNCHANGED <<registry, currentEntity, instances, exc, env, builder>>

\* ------------------------------------------------------------- all, clear
\* clear forgetting the cached list
clear_KeepList(e) ==
    /\ CanCall
    /\ componentsMap' = [componentsMap EXCEPT ![e] = <<>>]
    /\ componentsListDirty' = [componentsListDirty EXCEPT ![e] = FALSE]
    /\ last' = Nothing
    /\ UNCHANGED <<componentsList, currentEntity, instances, stack, exc, obs, env, builder>>

\* clear as a loop of destroy() over the instances
clear_Destroying(e) ==
    /\ CanCall
    /\ componentsMap' = [componentsMap EXCEPT ![e] = <<>>]
    /\ componentsList' = [componentsList EXCEPT ![e] = <<>>]
    /\ componentsListDirty' = [componentsListDirty EXCEPT ![e] = FALSE]
    /\ obs' = [c \in 1..Len(obs) |->
                  IF \E i \in 1..Len(componentsMap[e]) : componentsMap[e][i].val = c
                  THEN [obs[c] EXCEPT !.destroyed = IF @ < MaxDestroyed THEN @ + 1 ELSE @]
                  ELSE obs[c]]
    /\ last' = Nothing
    /\ UNCHANGED <<currentEntity, instances, stack, exc, env, builder>>

all(e) ==
    /\ CanCall
    /\ rebuildList(e)
    /\ last' = Nothing
    /\ UNCHANGED <<componentsMap, currentEntity, instances, stack, exc, obs, env, builder>>

clear(e) ==
    /\ CanCall
    /\ componentsMap' = [componentsMap EXCEPT ![e] = <<>>]
    /\ componentsList' = [componentsList EXCEPT ![e] = <<>>]
    /\ componentsListDirty' = [componentsListDirty EXCEPT ![e] = FALSE]
    /\ last' = Nothing
    /\ UNCHANGED <<currentEntity, instances, stack, exc, obs, env, builder>>

\* ------------------------------------------------------------- forEach
\* lines 65-67: rebuild, then the callback on the first element, if any
forEach(e) ==
    /\ CanCall
    /\ rebuildList(e)
    /\ IF RebuiltList(e) = <<>>
       THEN UNCHANGED stack
       ELSE stack' = Append(stack,
                Frame("forEach", e, "-", "callback", RebuiltList(e)[1], 1))
    /\ last' = Nothing
    /\ UNCHANGED <<componentsMap, currentEntity, instances, exc, obs, env, builder>>

\* lines 66-67: the callback returns; i++, and the bound is read again from
\* this.componentsList as it is now
callbackReturns ==
    /\ stack # <<>> /\ Running
    /\ Top.pc = "callback"
    /\ IF Top.li + 1 <= Len(componentsList[Top.e])
       THEN stack' = [stack EXCEPT ![Len(stack)] =
                          [Top EXCEPT !.li = @ + 1,
                                      !.c = componentsList[Top.e][Top.li + 1]]]
       ELSE stack' = Pop
    /\ last' = Nothing
    /\ UNCHANGED <<registry, currentEntity, instances, exc, obs, env, builder>>

\* ------------------------------------------------------------- exceptions
\* user code (the host, or the callback on top) catches the exception.  A
\* constructor that lets it through is constructorThrows; destroy(), the
\* listeners and the forEach callbacks are taken to handle what they call
catch ==
    /\ exc # "none"
    /\ exc' = "none"
    /\ last' = Nothing
    /\ UNCHANGED <<registry, currentEntity, instances, stack, obs, env, builder>>

Next ==
    \/ \E e \in Called, t \in Callable : add(e, t)
    \/ constructorThrows
    \/ addConstructed
    \/ \E e \in Called, t \in Callable : remove(e, t)
    \/ removeDestroyed
    \/ listenerReturns
    \/ \E e \in Called : all(e)
    \/ \E e \in Called : clear(e)
    \/ \E e \in Called : forEach(e)
    \/ callbackReturns
    \/ catch

Spec == Init /\ [][Next]_vars

SpecBind == InitBind /\ [][Next]_vars

SpecHost == InitHost /\ [][Next]_vars

\* ------------------------------------------------------------- nested adds
\* lines 128-133, called by a listener of the events of an add that was itself
\* called by a constructor: one level deeper than the calls followed elsewhere
addByListener(e, t) ==
    /\ Running
    /\ stack # <<>>
    /\ Top.pc \in {"emitAdd", "emitUpdate"}
    /\ Len(stack) < MaxNested
    /\ IF has(e, t)
       THEN /\ exc' = "duplicate"
            /\ UNCHANGED <<registry, currentEntity, instances, stack, obs>>
       ELSE /\ Len(instances) + Constructing < MaxNestedInst
            /\ setCurrentEntity(e)
            /\ stack' = Append(stack, Frame("add", e, t, "ctor", Undefined, 0))
            /\ UNCHANGED <<registry, instances, exc, obs>>
    /\ last' = Nothing
    /\ UNCHANGED <<env, builder>>

\* constructors and listeners that call add
NextNested ==
    \/ \E e \in Called, t \in Callable : add(e, t)
    \/ constructorThrows
    \/ addConstructed
    \/ listenerReturns
    \/ catch
    \/ \E e \in Called, t \in Callable : addByListener(e, t)

SpecNested == InitBind /\ [][NextNested]_vars

\* ------------------------------------------------------------- get, find, has
\* get returning undefined for a missing class instead of throwing
get_Undefined(e, t) ==
    /\ CanCall
    /\ last' = [op |-> "get", e |-> e, t |-> t, value |-> find(e, t)]
    /\ UNCHANGED <<registry, currentEntity, instances, stack, exc, obs, env, builder>>

\* lines 81-85: the lookup; the error for a missing class, else the instance
get(e, t) ==
    /\ CanCall
    /\ IF find(e, t) = Undefined
       THEN exc' = "notFound"
       ELSE UNCHANGED exc
    /\ last' = [op |-> "get", e |-> e, t |-> t, value |-> find(e, t)]
    /\ UNCHANGED <<registry, currentEntity, instances, stack, obs, env, builder>>

\* line 98: find called by the host, which keeps what it returns
findCalled(e, t) ==
    /\ CanCall
    /\ last' = [op |-> "find", e |-> e, t |-> t, value |-> find(e, t)]
    /\ UNCHANGED <<registry, currentEntity, instances, stack, exc, obs, env, builder>>

\* line 110: has called by the host, which keeps what it returns
hasCalled(e, t) ==
    /\ CanCall
    /\ last' = [op |-> "has", e |-> e, t |-> t, value |-> has(e, t)]
    /\ UNCHANGED <<registry, currentEntity, instances, stack, exc, obs, env, builder>>

\* the registry with its lookups, called by the host between the other calls
NextLookup ==
    \/ Next
    \/ \E e \in Called, t \in Callable : get(e, t)
    \/ \E e \in Called, t \in Callable : findCalled(e, t)
    \/ \E e \in Called, t \in Callable : hasCalled(e, t)

InitLookup ==
    /\ InitRegistry
    /\ reentrant = FALSE
    /\ inUse = OneEntity
    /\ priorityOf = [A |-> 2, B |-> 1, C |-> 2]

SpecLookup == InitLookup /\ [][NextLookup]_vars

\* ------------------------------------------------------------- QueryBuilder
\* the predicate of a with condition, applied to the instances it is given
check(name, args) == \A k \in 1..Len(args) : instances[args[k]].entity = 1

Evaluated(e, i) == [ev |-> "condition", e |-> e, i |-> i, args |-> <<>>]

Checked(e, i, args) == [ev |-> "check", e |-> e, i |-> i, args |-> args]

\* a with condition that calls its predicate before it looks for missing
\* instances
Condition_ChecksFirst(c, e, i) ==
    LET found == [k \in 1..Len(c.types) |-> find(e, c.types[k])]
    IN  IF c.kind = "without"
        THEN [ok |-> ~ \E k \in 1..Len(c.types) : has(e, c.types[k]),
              log |-> << Evaluated(e, i) >>]
        ELSE IF c.check = "none"
        THEN [ok |-> \A k \in 1..Len(c.types) : has(e, c.types[k]),
              log |-> << Evaluated(e, i) >>]
        ELSE [ok |-> /\ \A k \in 1..Len(found) : found[k] # Undefined
                     /\ check(c.check, found),
              log |-> << Evaluated(e, i), Checked(e, i, found) >>]

\* a without condition that fails only when all the listed classes are present
Condition_WithoutAll(c, e, i) ==
    LET found == [k \in 1..Len(c.types) |-> find(e, c.types[k])]
    IN  IF c.kind = "without"
        THEN [ok |-> ~ \A k \in 1..Len(c.types) : has(e, c.types[k]),
              log |-> << Evaluated(e, i) >>]
        ELSE IF c.check = "none"
        THEN [ok |-> \A k \in 1..Len(c.types) : has(e, c.types[k]),
              log |-> << Evaluated(e, i) >>]
        ELSE IF \E k \in 1..Len(found) : found[k] = Undefined
        THEN [ok |-> FALSE, log |-> << Evaluated(e, i) >>]
        ELSE [ok |-> check(c.check, found),
              log |-> << Evaluated(e, i), Checked(e, i, found) >>]

\* lines 240-268 and 289-291: the condition closures, applied to an entity as
\* the i-th condition; ok is what the closure returns, log the closure's call
\* and the call of its predicate, if it makes one.  with(T, check) passes the
\* instance itself, with([T..], check) the array of instances: both are the
\* sequence args here
Condition(c, e, i) ==
    LET found == [k \in 1..Len(c.types) |-> find(e, c.types[k])]
    IN  IF c.kind = "without"
        THEN [ok |-> ~ \E k \in 1..Len(c.types) : has(e, c.types[k]),
              log |-> << Evaluated(e, i) >>]
        ELSE IF c.check = "none"
        THEN [ok |-> \A k \in 1..Len(c.types) : has(e, c.types[k]),
              log |-> << Evaluated(e, i) >>]
        ELSE IF \E k \in 1..Len(found) : found[k] = Undefined
        THEN [ok |-> FALSE, log |-> << Evaluated(e, i) >>]
        ELSE [ok |-> check(c.check, found),
              log |-> << Evaluated(e, i), Checked(e, i, found) >>]

\* every without its early exit: all the conditions are called
RECURSIVE every_CallsAll(_, _, _)
every_CallsAll(conds, i, e) ==
    IF i > Len(conds)
    THEN [ok |-> TRUE, log |-> <<>>]
    ELSE LET r == Condition(conds[i], e, i)
             rest == every_CallsAll(conds, i + 1, e)
         IN  [ok |-> r.ok /\ rest.ok, log |-> r.log \o rest.log]

\* line 206: Array.prototype.every stops at the first condition returning false
RECURSIVE every(_, _, _)
every(conds, i, e) ==
    IF i > Len(conds)
    THEN [ok |-> TRUE, log |-> <<>>]
    ELSE LET r == Condition(conds[i], e, i)
         IN  IF ~r.ok
             THEN r
             ELSE LET rest == every(conds, i + 1, e)
                  IN  [ok |-> rest.ok, log |-> r.log \o rest.log]

\* lines 199-207
evaluateConditions(conds, e) ==
    IF Len(conds) = 0
    THEN [ok |-> TRUE, log |-> <<>>]
    ELSE every(conds, 1, e)

\* a loop of first without its break: the last match wins
RECURSIVE firstFrom_NoBreak(_, _)
firstFrom_NoBreak(conds, k) ==
    IF k > Len(entities)
    THEN [value |-> Undefined, log |-> <<>>]
    ELSE LET r == evaluateConditions(conds, entities[k])
             rest == firstFrom_NoBreak(conds, k + 1)
         IN  [value |-> IF rest.value # Undefined THEN rest.value
                        ELSE IF r.ok THEN entities[k] ELSE Undefined,
              log |-> r.log \o rest.log]

\* lines 308-314: the loop of first over the set, from its k-th entity on
RECURSIVE firstFrom(_, _)
firstFrom(conds, k) ==
    IF k > Len(entities)
    THEN [value |-> Undefined, log |-> <<>>]
    ELSE LET r == evaluateConditions(conds, entities[k])
         IN  IF r.ok
             THEN [value |-> entities[k], log |-> r.log]
             ELSE LET rest == firstFrom(conds, k + 1)
                  IN  [value |-> rest.value, log |-> r.log \o rest.log]

\* lines 331-336: the loop of all over the set, from its k-th entity on
RECURSIVE allFrom(_, _)
allFrom(conds, k) ==
    IF k > Len(entities)
    THEN [value |-> <<>>, log |-> <<>>]
    ELSE LET r == evaluateConditions(conds, entities[k])
             rest == allFrom(conds, k + 1)
         IN  [value |-> IF r.ok THEN <<entities[k]>> \o rest.value ELSE rest.value,
              log |-> r.log \o rest.log]

\* line 353: all().length; line 368: first() !== undefined
count(conds) == Len(allFrom(conds, 1).value)

exists(conds) == firstFrom(conds, 1).value # Undefined

Terminals == {"first", "all", "count", "exists"}

\* the call that came right before a terminal call: one building the chain,
\* a terminal call (with conditions to evaluate, or with none), or another one
Before ==
    IF last.op \in {"with", "without"} THEN "chain"
    ELSE IF last.op \in Terminals
    THEN IF last.n > 0 THEN "terminal" ELSE "bare terminal"
    ELSE "other"

\* what a terminal call returns, how many conditions it evaluated with, and
\* the calls of conditions and predicates it made
Returned(op, value, log) ==
    [op |-> op, value |-> value, n |-> Len(conditions), log |-> log, after |-> Before]

\* the owner of the set adds an entity to it, or deletes one
entitiesAdd(e) ==
    /\ CanCall
    /\ entities' = IF \E k \in 1..Len(entities) : entities[k] = e
                   THEN entities
                   ELSE Append(entities, e)
    /\ last' = Nothing
    /\ UNCHANGED <<registry, currentEntity, instances, stack, exc, obs, env, conditions>>

entitiesDelete(e) ==
    /\ CanCall
    /\ entities' = SelectSeq(entities, LAMBDA x : x # e)
    /\ last' = Nothing
    /\ UNCHANGED <<registry, currentEntity, instances, stack, exc, obs, env, conditions>>

\* with filtering the entity set when it is called
with_Filtering(types, chk) ==
    /\ CanCall
    /\ Len(conditions) < MaxConds
    /\ conditions' = Append(conditions, [kind |-> "with", types |-> types, check |-> chk])
    /\ entities' = SelectSeq(entities,
                       LAMBDA e : \A k \in 1..Len(types) : has(e, types[k]))
    /\ last' = [op |-> "with"]
    /\ UNCHANGED <<registry, currentEntity, instances, stack, exc, obs, env>>

\* lines 231-274
with(types, chk) ==
    /\ CanCall
    /\ Len(conditions) < MaxConds
    /\ conditions' = Append(conditions, [kind |-> "with", types |-> types, check |-> chk])
    /\ last' = [op |-> "with"]
    /\ UNCHANGED <<registry, currentEntity, instances, stack, exc, obs, env, entities>>

\* lines 288-294
without(types) ==
    /\ CanCall
    /\ Len(conditions) < MaxConds
    /\ conditions' = Append(conditions, [kind |-> "without", types |-> types, check |-> "none"])
    /\ last' = [op |-> "without"]
    /\ UNCHANGED <<registry, currentEntity, instances, stack, exc, obs, env, entities>>

\* lines 307-317
queryFirst ==
    /\ CanCall
    /\ LET r == firstFrom(conditions, 1)
       IN  last' = Returned("first", r.value, r.log)
    /\ conditions' = <<>>
    /\ UNCHANGED <<registry, currentEntity, instances, stack, exc, obs, env, entities>>

\* all returning without resetting the conditions
queryAll_KeepsConditions ==
    /\ CanCall
    /\ LET r == allFrom(conditions, 1)
       IN  last' = Returned("all", r.value, r.log)
    /\ UNCHANGED <<registry, currentEntity, instances, stack, exc, obs, env, builder>>

\* lines 330-339
queryAll ==
    /\ CanCall
    /\ LET r == allFrom(conditions, 1)
       IN  last' = Returned("all", r.value, r.log)
    /\ conditions' = <<>>
    /\ UNCHANGED <<registry, currentEntity, instances, stack, exc, obs, env, entities>>

\* lines 352-354: count is all().length
queryCount ==
    /\ CanCall
    /\ last' = Returned("count", count(conditions), allFrom(conditions, 1).log)
    /\ conditions' = <<>>
    /\ UNCHANGED <<registry, currentEntity, instances, stack, exc, obs, env, entities>>

\* lines 367-369: exists is first() !== undefined
queryExists ==
    /\ CanCall
    /\ last' = Returned("exists", exists(conditions), firstFrom(conditions, 1).log)
    /\ conditions' = <<>>
    /\ UNCHANGED <<registry, currentEntity, instances, stack, exc, obs, env, entities>>

\* entities that get components, the set of them, and one QueryBuilder over it
NextQuery ==
    \/ \E e \in Called, t \in QueryTypes : add(e, t)
    \/ addConstructed
    \/ listenerReturns
    \/ catch
    \/ \E e \in Called : entitiesAdd(e)
    \/ \E e \in Called : entitiesDelete(e)
    \/ \E types \in WithTuples, chk \in Checks : with(types, chk)
    \/ \E types \in WithoutTuples : without(types)
    \/ queryFirst
    \/ queryAll
    \/ queryCount
    \/ queryExists

InitQuery ==
    /\ InitRegistry
    /\ reentrant = FALSE
    /\ inUse = Entities
    /\ priorityOf = [A |-> 2, B |-> 1, C |-> 2]

SpecQuery == InitQuery /\ [][NextQuery]_vars

\* the same with components that are also removed, under short chains of one
\* with and one without condition
NextLive ==
    \/ \E e \in Called, t \in QueryTypes : Len(instances) < MaxLiveInst /\ add(e, t)
    \/ addConstructed
    \/ listenerReturns
    \/ \E e \in Called, t \in QueryTypes : remove(e, t)
    \/ removeDestroyed
    \/ \E e \in Called : entitiesAdd(e)
    \/ \E e \in Called : entitiesDelete(e)
    \/ \E types \in LiveWith : with(types, "none")
    \/ \E types \in LiveWithout : without(types)
    \/ queryFirst
    \/ queryAll
    \/ queryCount
    \/ queryExists

SpecLive == InitQuery /\ [][NextLive]_vars

\* =====================================================================
\* The claims
\* =====================================================================

\* the call in progress on top returns in this step
Returns(op) ==
    /\ stack # <<>>
    /\ Top.op = op
    /\ Top.pc = "emitUpdate"
    /\ listenerReturns
    /\ Len(stack') < Len(stack)

\* C1: add(T) on an entity that already has T fails with an error and mutates
\* nothing: no constructor runs (no frame, no instance), the binding slot is
\* not set, the map, the list and the dirty flag are unchanged, nothing is
\* emitted, and find(T) is still the first instance.
C1_DuplicateAddChangesNothing ==
    [][\A e \in Entities, t \in Types :
          (has(e, t) /\ add(e, t)) =>
              /\ exc' = "duplicate"
              /\ UNCHANGED <<componentsMap, componentsList, componentsListDirty,
                             currentEntity, instances, stack, obs>>
              /\ MapGet(componentsMap'[e], t) = find(e, t)
              /\ find(e, t) # Undefined]_vars

C1_Witness ==
    /\ exc = "duplicate"
    /\ \E e \in Entities, t \in Types : has(e, t) /\ instances[find(e, t)].type = t

\* C2: the binding slot is set to the entity when add constructs and is 'none'
\* again after every add call that returns or raises, also when the
\* constructor throws.
C2_SlotClearedAfterEveryAdd ==
    [][/\ \A e \in Entities, t \in Types :
            (~has(e, t) /\ add(e, t)) => currentEntity' = e
       /\ ( \/ \E e \in Entities, t \in Types : has(e, t) /\ add(e, t)
            \/ constructorThrows
            \/ Returns("add") ) => currentEntity' = NoEntity]_vars

\* C3: with add calls that do not overlap, a running constructor finds its own
\* entity in the binding slot, the slot is 'none' whenever no add is in
\* progress, and a registered instance refers back to the entity that owns
\* the registry.
AddsInProgress == {i \in 1..Len(stack) : stack[i].op = "add"}

C3_BindingCorrect ==
    /\ \A i \in 1..Len(stack) :
          (stack[i].pc = "ctor" /\ Cardinality(AddsInProgress) = 1)
              => currentEntity = stack[i].e
    /\ AddsInProgress = {} => currentEntity = NoEntity
    /\ \A e \in Entities, t \in Types :
          has(e, t) => instances[find(e, t)].entity = e

\* ---------------------------------------------------------------------
\* helpers of the claims below
Event(name, payload) == [name |-> name, payload |-> payload]

Registered(e) == {componentsMap[e][i].val : i \in 1..Len(componentsMap[e])}

Elements(s) == {s[i] : i \in 1..Len(s)}

IndexIn(s, x) == CHOOSE i \in 1..Len(s) : s[i] = x

\* a listener is invoked in this step: the first one of 'add' or 'remove', or
\* the next one after a listener has returned
ListenerInvoked ==
    /\ Len(stack') = Len(stack)
    /\ (addConstructed \/ removeDestroyed \/ listenerReturns)

\* C4: a call of add(T) that returns has emitted exactly 'add' with the new
\* instance, then 'update' without payload; a call of remove(T) of a present T
\* that returns has emitted exactly 'remove' with the removed instance, then
\* 'update' without payload; so the events of an instance that was added and
\* then removed are add, update, remove, update and nothing else.
C4_RoundTrip ==
    \A c \in 1..Len(instances) :
        (stack = <<>> /\ obs[c].destroyed = 1)
            => obs[c].emitted = << Event("add", c), Event("update", Undefined),
                                   Event("remove", c), Event("update", Undefined) >>

C4_EventsInOrder ==
    [][/\ Returns("add") =>
            /\ Top.emitted = << Event("add", Top.c), Event("update", Undefined) >>
            /\ Top.c = Len(instances) /\ instances[Top.c].type = Top.t
       /\ Returns("remove") =>
            /\ Top.emitted = << Event("remove", Top.c), Event("update", Undefined) >>
            /\ instances[Top.c].type = Top.t /\ instances[Top.c].entity = Top.e
       /\ C4_RoundTrip']_vars

C4_Witness ==
    /\ stack = <<>>
    /\ Len(instances) = 1
    /\ obs[1].emitted = << Event("add", 1), Event("update", Undefined),
                           Event("remove", 1), Event("update", Undefined) >>

\* C5 as claimed: whenever any listener of 'add' or of the 'update' after it is
\* invoked for instance c of class T, find(T) is c and all() contains c;
\* whenever any listener of 'remove' or of the 'update' after it is invoked for
\* c, destroy() has run on c and c is neither in the map nor in all(); also
\* when a listener invoked before has itself called add or remove.
SeenByListener(f) ==
    IF f.op = "add"
    THEN /\ find(f.e, f.t) = f.c
         /\ f.c \in Elements(RebuiltList(f.e))
    ELSE /\ obs[f.c].destroyed >= 1
         /\ f.c \notin Registered(f.e)
         /\ f.c \notin Elements(RebuiltList(f.e))

C5_EveryListenerSeesTheMutation ==
    [][ListenerInvoked => SeenByListener(Top)']_vars

\* C5 as amended: the first listener of 'add' finds c with find(T) and in
\* all(); a listener invoked after another one finds the same unless T was
\* removed or the registry cleared meanwhile, and then c is in neither; every
\* listener of 'remove' and of the 'update' after it finds that destroy() has
\* run on c and that c is neither in the map nor in all().
SeenByLaterListener(f) ==
    IF f.op = "add"
    THEN \/ SeenByListener(f)
         \/ /\ f.c \notin Registered(f.e)
            /\ f.c \notin Elements(RebuiltList(f.e))
    ELSE SeenByListener(f)

C5_ListenersSeeTheMutation ==
    [][ListenerInvoked =>
          IF listenerReturns
          THEN SeenByLaterListener(Top)'
          ELSE SeenByListener(Top)']_vars

C5_Witness ==
    /\ stack # <<>>
    /\ Top.op = "add" /\ Top.pc = "emitUpdate"
    /\ Top.c \notin Registered(Top.e)

\* C6: remove(T) on an entity without T raises nothing, calls no destroy(),
\* emits nothing and leaves the map, the list and the dirty flag as they are;
\* and a remove(T) that returns leaves the entity without T, so that a second
\* remove(T) right after it is such a call.
C6_RemoveOfAbsentIsNoOp ==
    [][/\ \A e \in Entities, t \in Types :
            (find(e, t) = Undefined /\ remove(e, t)) =>
                UNCHANGED <<componentsMap, componentsList, componentsListDirty,
                            currentEntity, instances, stack, exc, obs>>
       /\ Returns("remove") => MapGet(componentsMap'[Top.e], Top.t) = Undefined]_vars

C6_Witness ==
    /\ last.op = "remove"
    /\ stack = <<>> /\ exc = "none"
    /\ \E c \in 1..Len(instances) :
          /\ instances[c].type = last.t
          /\ obs[c].destroyed = 1
          /\ obs[c].emitted = << Event("add", c), Event("update", Undefined),
                                 Event("remove", c), Event("update", Undefined) >>

\* C7: whenever the dirty flag is false, componentsList holds exactly the values
\* of componentsMap, each once, in ascending priority, in every state, those
\* inside listeners and forEach callbacks included; and every add and every
\* remove of a present class sets the dirty flag.
ListIsSortedMap(e) ==
    /\ Elements(componentsList[e]) = Registered(e)
    /\ Len(componentsList[e]) = Len(componentsMap[e])
    /\ \A i, j \in 1..Len(componentsList[e]) :
          i < j => instances[componentsList[e][i]].priority
                       <= instances[componentsList[e][j]].priority

C7_CacheValid == \A e \in Entities : ~componentsListDirty[e] => ListIsSortedMap(e)

C7_CleanListIsSortedMap ==
    [][/\ C7_CacheValid'
       /\ (addConstructed \/ removeDestroyed) => componentsListDirty'[Top.e]]_vars

C7_Witness ==
    /\ stack # <<>>
    /\ \E e \in Entities :
          /\ ~componentsListDirty[e]
          /\ Len(componentsList[e]) = 2
          /\ componentsList[e] # MapValues(componentsMap[e])

\* C8: all() returns every registered component exactly once, in ascending
\* priority, components of equal priority in the order of the map (the order
\* in which they were added); and add does not change the order in which all()
\* returns two components that were registered before: what all() returns
\* after the add is, without the new component, what it returned before.
InAllOrder(s, m) ==
    /\ Elements(s) = Elements(m)
    /\ Len(s) = Len(m)
    /\ \A i, j \in 1..Len(s) :
          i < j =>
              \/ instances[s[i]].priority < instances[s[j]].priority
              \/ /\ instances[s[i]].priority = instances[s[j]].priority
                 /\ IndexIn(m, s[i]) < IndexIn(m, s[j])

C8_AllInPriorityOrder ==
    [][/\ \A e \in Entities :
            (/\ stack' = stack /\ componentsMap' = componentsMap
             /\ exc' = exc /\ last' = Nothing
             /\ all(e))
                => InAllOrder(componentsList'[e], MapValues(componentsMap[e]))
       /\ (Len(instances') > Len(instances) /\ addConstructed) =>
            SelectSeq(RebuiltList(Top.e)', LAMBDA c : c \in Registered(Top.e))
                = RebuiltList(Top.e)]_vars

C8_Witness ==
    \E e \in Entities :
        /\ ~componentsListDirty[e]
        /\ Len(componentsList[e]) = 3
        /\ componentsList[e] # MapValues(componentsMap[e])
        /\ \E i \in 1..2 : instances[componentsList[e][i]].priority
                               = instances[componentsList[e][i + 1]].priority

\* C9: destroy() is invoked at most once on an instance, whatever add, remove
\* and clear calls are made, those made from destroy() and from listeners
\* included; remove of a present class invokes it before the map entry is
\* deleted.
C9_DestroyedOnce ==
    /\ \A c \in 1..Len(instances) : obs[c].destroyed <= 1
    /\ \A i \in 1..Len(stack) :
          stack[i].pc = "destroy" => obs[stack[i].c].destroyed >= 1

\* C10: clear() leaves the entity without any class, the list empty and the
\* dirty flag false, invokes no destroy(), emits nothing; all() then returns
\* the empty sequence and add(T) of a class registered before is not a
\* duplicate.
C10_ClearWipes ==
    [][\A e \in Entities :
          clear(e) =>
              /\ \A t \in Types : ~MapHas(componentsMap'[e], t)
              /\ componentsList'[e] = <<>>
              /\ ~componentsListDirty'[e]
              /\ RebuiltList(e)' = <<>>
              /\ UNCHANGED <<obs, stack, exc, instances, currentEntity>>]_vars

C10_Witness ==
    \E c, d \in 1..Len(instances) :
        /\ c < d
        /\ instances[c].type = instances[d].type
        /\ instances[c].entity = instances[d].entity
        /\ obs[c].destroyed = 0 /\ obs[c].emitted = << Event("add", c), Event("update", Undefined) >>
        /\ find(instances[d].entity, instances[d].type) = d
        /\ stack = <<>>

\* C11: has(T) is true iff find(T) returns an instance; get(T) raises the
\* not-found error iff has(T) is false and otherwise returns the instance
\* find(T) returns; that instance is the one the most recent add(T) that
\* returned has registered, as long as no remove(T) and no clear() followed:
\* only add, remove and clear change what find(T) returns; get, find and has
\* change neither the map, the list, the dirty flag, the instances, their
\* destroy() calls nor the events emitted, also when get fails.
LookupsAgree ==
    \A e \in Entities, t \in Types :
        /\ has(e, t) <=> find(e, t) # Undefined
        /\ find(e, t) # Undefined =>
              /\ find(e, t) \in 1..Len(instances)
              /\ instances[find(e, t)].type = t
              /\ instances[find(e, t)].entity = e

LookupReturned ==
    /\ last.op = "get" =>
          IF has(last.e, last.t)
          THEN exc = "none" /\ last.value = find(last.e, last.t)
          ELSE exc = "notFound"
    /\ last.op = "find" => last.value = MapGet(componentsMap[last.e], last.t)
    /\ last.op = "has" => last.value = MapHas(componentsMap[last.e], last.t)

ChangedBy(e, t) ==
    \/ addConstructed /\ Top.e = e /\ Top.t = t
         /\ MapGet(componentsMap'[e], t) = Len(instances')
    \/ removeDestroyed /\ Top.e = e /\ Top.t = t
         /\ MapGet(componentsMap'[e], t) = Undefined
    \/ clear(e) /\ MapGet(componentsMap'[e], t) = Undefined

C11_LookupsAgree ==
    [][/\ LookupsAgree'
       /\ last'.op \in {"get", "find", "has"} =>
             /\ LookupReturned'
             /\ UNCHANGED <<registry, currentEntity, instances, stack, obs>>
             /\ last'.op # "get" => UNCHANGED exc
       /\ componentsMap' # componentsMap =>
             \A e \in Entities, t \in Types :
                 MapGet(componentsMap'[e], t) # find(e, t) => ChangedBy(e, t)]_vars

C11_Witness ==
    /\ last.op = "get"
    /\ last.value = 3
    /\ instances[1].type = last.t /\ obs[1].destroyed = 1
    /\ instances[2].type = last.t /\ obs[2].destroyed = 0
    /\ instances[3].type = last.t

\* ---------------------------------------------------------------------
\* what a chain of conditions asks of an entity
Satisfies(c, e) ==
    IF c.kind = "with"
    THEN /\ \A k \in 1..Len(c.types) : has(e, c.types[k])
         /\ c.check # "none" =>
               check(c.check, [k \in 1..Len(c.types) |-> find(e, c.types[k])])
    ELSE \A k \in 1..Len(c.types) : ~has(e, c.types[k])

Matches(conds, e) == \A i \in 1..Len(conds) : Satisfies(conds[i], e)

Matching(conds) == SelectSeq(entities, LAMBDA e : Matches(conds, e))

\* C12: for the chain of with and without conditions of the builder, all()
\* returns exactly the entities of the set, in the set's order and each once,
\* that have every class of every with condition, satisfy its predicate if it
\* has one, and have no class of any without condition; with no condition it
\* returns every entity of the set.
C12_AllReturnsTheMatches ==
    /\ allFrom(conditions, 1).value = Matching(conditions)
    /\ \A j, k \in 1..Len(Matching(conditions)) :
          j # k => Matching(conditions)[j] # Matching(conditions)[k]
    /\ (last.op = "all" /\ last.n = 0) => last.value = entities

C12_Witness ==
    /\ last.op = "all" /\ last.n = 2
    /\ entities = <<1, 2>>
    /\ has(1, "A") /\ has(1, "B") /\ has(2, "A") /\ ~has(2, "B")
    /\ last.value = <<2>>

\* C13: the predicate of a with condition is called only for an entity that
\* has every class of the condition, with the entity's current instances of
\* these classes in the order of the classes; for an entity that lacks one
\* the condition is false, without a call of the predicate; and a terminal
\* call raises no error.
PredicateCalls(log, conds) ==
    \A j \in 1..Len(log) :
        log[j].ev = "check" =>
            LET c == conds[log[j].i]
            IN  /\ c.kind = "with" /\ c.check # "none"
                /\ Len(log[j].args) = Len(c.types)
                /\ \A k \in 1..Len(c.types) :
                      /\ has(log[j].e, c.types[k])
                      /\ log[j].args[k] = find(log[j].e, c.types[k])
                      /\ instances[log[j].args[k]].type = c.types[k]

FalseWhereLacking(conds) ==
    \A i \in 1..Len(conds), k \in 1..Len(entities) :
        (/\ conds[i].kind = "with"
         /\ \E n \in 1..Len(conds[i].types) : ~has(entities[k], conds[i].types[n]))
            => Condition(conds[i], entities[k], i) =
                   [ok |-> FALSE, log |-> << Evaluated(entities[k], i) >>]

C13_PredicateOnlyOnInstances ==
    /\ PredicateCalls(allFrom(conditions, 1).log, conditions)
    /\ PredicateCalls(firstFrom(conditions, 1).log, conditions)
    /\ FalseWhereLacking(conditions)
    /\ last.op \in Terminals => exc = "none"

C13_Witness ==
    /\ last.op = "all" /\ last.n = 1
    /\ entities = <<2, 1>>
    /\ has(2, "A") /\ ~has(2, "B")
    /\ has(1, "A") /\ has(1, "B") /\ find(1, "B") < find(1, "A")
    /\ last.log = << Evaluated(2, 1), Evaluated(1, 1),
                     Checked(1, 1, << find(1, "A"), find(1, "B") >>) >>
    /\ last.value = <<1>>

\* C14: after a terminal call (first, all, count, exists) the builder has no
\* conditions; a terminal call that follows another terminal call directly
\* evaluates no condition and matches every entity of the set: all returns the
\* whole set, first its first entity, count its size, exists whether it has
\* an entity.
MatchesEverything ==
    /\ last.n = 0
    /\ last.log = <<>>
    /\ last.op = "all" => last.value = entities
    /\ last.op = "first" =>
          last.value = IF entities = <<>> THEN Undefined ELSE entities[1]
    /\ last.op = "count" => last.value = Len(entities)
    /\ last.op = "exists" => last.value = (entities # <<>>)

C14_TerminalClearsConditions ==
    last.op \in Terminals =>
        /\ conditions = <<>>
        /\ last.after \in {"terminal", "bare terminal"} => MatchesEverything

C14_Witness ==
    /\ last.op = "all"
    /\ last.after = "terminal"
    /\ entities = <<1, 2>>
    /\ has(1, "A") /\ ~has(2, "A") /\ ~has(2, "B")
    /\ last.value = <<1, 2>>

\* C15: on the same set, registries and chain of conditions, first returns the
\* first element of what all returns, or undefined when all returns nothing;
\* count is the length of what all returns; exists is true iff first does not
\* return undefined iff count is positive.
C15_TerminalsAgree ==
    LET found == firstFrom(conditions, 1).value
        matched == allFrom(conditions, 1).value
        counted == count(conditions)
        any == exists(conditions)
    IN  /\ found = IF matched = <<>> THEN Undefined ELSE matched[1]
        /\ counted = Len(matched)
        /\ any <=> found # Undefined
        /\ any <=> counted > 0

C15_Witness ==
    /\ last.op = "exists" /\ last.value = TRUE
    /\ last.n = 2
    /\ entities = <<1, 2>>
    /\ last.log # <<>>
    /\ last.log[1].e = 1
    /\ last.log[Len(last.log)].e = 2
    /\ has(1, "B") /\ has(2, "A")

\* C16: a forEach pass goes over the snapshot taken when forEach started,
\* whatever the callback does (add, remove, clear, all, a nested forEach):
\* while the pass is in progress, no step changes the sequence whose length
\* and elements the pass reads for its next callback.
C16_PassOverSnapshot ==
    [][\A i \in 1..Len(stack) :
          (/\ stack[i].op = "forEach"
           /\ Len(stack') >= i
           /\ stack'[i].op = "forEach")
              => componentsList'[stack[i].e] = componentsList[stack[i].e]]_vars

\* C17: a constructor that calls add (on the same or another entity) is not
\* stopped: the inner add binds its own entity and constructs; when the inner
\* add returns into the outer constructor the binding slot is 'none', not the
\* outer entity, and it stays 'none' while the outer constructor goes on.
NestedAddStarts ==
    /\ stack # <<>>
    /\ Top.pc = "ctor"
    /\ Len(stack') = Len(stack) + 1
    /\ stack'[Len(stack')].op = "add"

NestedAddReturns ==
    /\ Len(stack) >= 2
    /\ stack[Len(stack) - 1].pc = "ctor"
    /\ Returns("add")

C17_NestedAddUnbindsTheOuter ==
    [][/\ NestedAddStarts =>
            /\ exc' = "none"
            /\ stack'[Len(stack')].pc = "ctor"
            /\ currentEntity' = stack'[Len(stack')].e
            /\ SubSeq(stack', 1, Len(stack)) = stack
       /\ NestedAddReturns =>
            /\ stack' = Pop
            /\ currentEntity' = NoEntity
            /\ currentEntity' # stack'[Len(stack')].e
       /\ (/\ stack # <<>>
           /\ Top.pc = "ctor"
           /\ currentEntity = NoEntity
           /\ stack' = stack) => currentEntity' = NoEntity]_vars

\* the index of the last condition called for an entity: the first one it
\* fails, or the last one
CalledUpTo(conds, e) ==
    LET failing == {i \in 1..Len(conds) : ~Satisfies(conds[i], e)}
    IN  IF failing = {}
        THEN Len(conds)
        ELSE CHOOSE i \in failing : \A j \in failing : i <= j

\* the condition calls for the entities k..n of the set: entity by entity in
\* the order of the set, the conditions of an entity in the order of the chain
RECURSIVE CallsFor(_, _, _)
CallsFor(conds, k, n) ==
    IF k > n
    THEN <<>>
    ELSE [i \in 1..CalledUpTo(conds, entities[k]) |-> Evaluated(entities[k], i)]
             \o CallsFor(conds, k + 1, n)

\* log is the calls made for the first n entities of the set, in order, each
\* predicate call directly after the call of its condition
CallsInOrder(log, conds, n) ==
    /\ SelectSeq(log, LAMBDA x : x.ev = "condition") = CallsFor(conds, 1, n)
    /\ \A j \in 1..Len(log) :
          log[j].ev = "check" =>
              j > 1 /\ log[j - 1] = Evaluated(log[j].e, log[j].i)

\* C18: for each entity the conditions are called in the order they were
\* added, up to and including the first one that fails and no further, and a
\* predicate is called only within the call of its condition; the entities
\* are taken in the order of the set; first() returns the first entity of the
\* set that matches and calls no condition or predicate for an entity after it.
C18_ConditionsInOrder ==
    LET found == firstFrom(conditions, 1)
    IN  /\ CallsInOrder(allFrom(conditions, 1).log, conditions, Len(entities))
        /\ found.value = Undefined =>
               /\ \A k \in 1..Len(entities) : ~Matches(conditions, entities[k])
               /\ CallsInOrder(found.log, conditions, Len(entities))
        /\ found.value # Undefined =>
               /\ \E k \in 1..Len(entities) : entities[k] = found.value
               /\ Matches(conditions, found.value)
               /\ \A k \in 1..(IndexIn(entities, found.value) - 1) :
                      ~Matches(conditions, entities[k])
               /\ CallsInOrder(found.log, conditions,
                               IndexIn(entities, found.value))

C18_Witness ==
    /\ last.op = "first" /\ last.n = 2
    /\ entities = <<2, 1>>
    /\ ~has(2, "A")
    /\ has(1, "A") /\ has(1, "B")
    /\ last.log = << Evaluated(2, 1), Evaluated(1, 1), Evaluated(1, 2),
                     Checked(1, 2, << find(1, "A"), find(1, "B") >>) >>
    /\ last.value = 1

\* an add call of an absent class starts its constructor in this step
ConstructorStarts ==
    /\ Len(stack') = Len(stack) + 1
    /\ stack'[Len(stack')].pc = "ctor"

\* the constructor on top throws in this step
ConstructorThrew ==
    /\ stack # <<>>
    /\ Top.pc = "ctor"
    /\ exc' = "constructor"

\* C19: an add(T) whose constructor throws leaves the registry as it was
\* before the call: neither the steps of add up to the constructor nor the
\* throw change the map, the list or the dirty flag, no instance is
\* registered, no event is emitted, the error reaches the caller, and T is
\* absent afterwards, so that a later add(T) passes the duplicate check.
C19_ThrowingConstructorLeavesRegistry ==
    [][/\ ConstructorStarts =>
            /\ UNCHANGED <<componentsMap, componentsList, componentsListDirty,
                           instances, obs>>
            /\ stack'[Len(stack')].emitted = <<>>
       /\ ConstructorThrew =>
            /\ UNCHANGED <<componentsMap, componentsList, componentsListDirty,
                           instances, obs>>
            /\ Top.emitted = <<>>
            /\ stack' = Pop
            /\ ~MapHas(componentsMap'[Top.e], Top.t)
            /\ MapGet(componentsMap'[Top.e], Top.t) = Undefined]_vars

C19_Witness ==
    /\ exc = "constructor"
    /\ stack = <<>>
    /\ Len(instances) = 1
    /\ componentsMap[1] = << [key |-> "A", val |-> 1] >>
    /\ componentsList[1] = <<1>>
    /\ ~componentsListDirty[1]
    /\ obs[1].emitted = << Event("add", 1), Event("update", Undefined) >>

\* what the terminal call op returns for the entities that match
ValueOf(op, matched) ==
    CASE op = "all" -> matched
      [] op = "first" -> IF matched = <<>> THEN Undefined ELSE matched[1]
      [] op = "count" -> Len(matched)
      [] op = "exists" -> matched # <<>>

\* C20: with and without only append a condition made of their arguments
\* and touch neither the entity set nor any registry; a terminal call returns
\* what the conditions give on the entity set and the registries as they are
\* when it is called, whatever was added or removed since the conditions were
\* recorded, and changes neither.
C20_LazyAgainstLiveState ==
    [][/\ last'.op \in {"with", "without"} =>
            /\ UNCHANGED <<componentsMap, componentsList, componentsListDirty,
                           instances, obs, entities, stack, exc>>
            /\ Len(conditions') = Len(conditions) + 1
            /\ SubSeq(conditions', 1, Len(conditions)) = conditions
            /\ LET c == conditions'[Len(conditions')]
               IN  /\ c.kind = last'.op
                   /\ c.types \in LiveWith \cup LiveWithout
       /\ last'.op \in Terminals =>
            /\ last'.value = ValueOf(last'.op, Matching(conditions))
            /\ UNCHANGED <<componentsMap, componentsList, componentsListDirty,
                           instances, obs, entities, stack, exc>>]_vars

C20_Witness ==
    /\ last.op = "all" /\ last.n = 2
    /\ last.after = "other"
    /\ entities = <<1, 2>>
    /\ Len(instances) = 2
    /\ instances[1] = [type |-> "B", priority |-> 1, entity |-> 2]
    /\ instances[2] = [type |-> "A", priority |-> 2, entity |-> 2]
    /\ obs[1].destroyed = 1
    /\ ~has(1, "A") /\ has(2, "A") /\ ~has(2, "B")
    /\ last.value = <<2>>

====
